---------------------------- MODULE Spec2Model ----------------------------
(***************************************************************************)
(* Model of streamlit_app.py (Novanta PDF Reader): the token repair and    *)
(* header/data alignment of get_pack_list_id_from_tokens, the parts table  *)
(* extractor get_all_parts, the per-page record assembler                  *)
(* extract_invoice_data and the upload loop that flattens records to rows. *)
(*                                                                         *)
(* A Python str is a sequence of one-character strings; a page is the      *)
(* sequence of its lines (text.splitlines()); None is the value None.      *)
(***************************************************************************)
EXTENDS Integers, Sequences, FiniteSets, TLC

VARIABLES
    pc,                 \* position of the running function / loop
    i,                  \* loop index of the running function
    result,             \* value returned by the function that ran
    \* get_pack_list_id_from_tokens
    text_lines,         \* its argument
    header_tokens,      \* merged header tokens
    raw_data_tokens,    \* data_line.split()
    fixed_data_tokens,  \* after the fusion split
    data_tokens,        \* after merge_numeric_tokens
    \* get_all_parts
    text,               \* its argument
    lines,              \* text.splitlines()
    header_index,
    rows,
    \* extract_invoice_data
    pages,              \* the page texts read so far (indices into PageTexts)
    invoice_data,       \* the record being assembled
    full_data,          \* the record of the same loop without its break
    \* the upload loop
    uploaded_files,
    all_rows,
    errors,             \* files reported by st.error
    shown               \* what the page shows at the end

packVars == <<text_lines, header_tokens, raw_data_tokens, fixed_data_tokens, data_tokens>>

partsVars == <<text, lines, header_index, rows>>

docVars == <<pages, invoice_data, full_data>>

uploadVars == <<uploaded_files, all_rows, errors, shown>>

vars == <<pc, i, result, packVars, partsVars, docVars, uploadVars>>

-----------------------------------------------------------------------------
(* Bounds of the model.                                                     *)

\* longest data line (in characters) drawn for the token repair
MaxDataLen == 6

-----------------------------------------------------------------------------
(* The variables of the functions a specification does not run.             *)

IdlePack ==
    /\ text_lines = <<>>
    /\ header_tokens = <<>>
    /\ raw_data_tokens = <<>>
    /\ fixed_data_tokens = <<>>
    /\ data_tokens = <<>>

IdleParts ==
    /\ text = <<>>
    /\ lines = <<>>
    /\ header_index = -1
    /\ rows = <<>>

IdleDoc ==
    /\ pages = <<>>
    /\ invoice_data = <<>>
    /\ full_data = <<>>

IdleUpload ==
    /\ uploaded_files = <<>>
    /\ all_rows = <<>>
    /\ errors = <<>>
    /\ shown = "nothing"

-----------------------------------------------------------------------------
(* Python values and str methods.                                           *)

\* Python's None; no str equals it (its only element is not a character)
None == <<"None">>

\* truth value of an optional str: None and '' are false
Truthy(v) == v # None /\ v # <<>>

Digits == {"0","1","2","3","4","5","6","7","8","9"}

Letters == {"a","b","c","d","e","f","g","h","i","j","k","l","m",
            "n","o","p","q","r","s","t","u","v","w","x","y","z",
            "A","B","C","D","E","F","G","H","I","J","K","L","M",
            "N","O","P","Q","R","S","T","U","V","W","X","Y","Z"}

\* characters matched by \s
Spaces == {" ", "\t", "\n"}

\* the class [A-Za-z0-9\-] of the fusion pattern
CodeChars == Letters \cup Digits \cup {"-"}

\* the class \w, as \b reads it
WordChars == Letters \cup Digits \cup {"_"}

AllIn(s, cls) == \A k \in 1..Len(s) : s[k] \in cls

\* s[a:b] with 0-based, end-exclusive Python indices, 0 <= a, b <= len(s)
Slice(s, a, b) == IF b <= a THEN <<>> ELSE SubSeq(s, a + 1, b)

\* sub in s
Contains(s, sub) ==
    \/ sub = <<>>
    \/ \E p \in 0..(Len(s) - Len(sub)) :
          s[p + 1] = sub[1] /\ Slice(s, p, p + Len(sub)) = sub

\* s.startswith(pre)
StartsWith(s, pre) == Len(s) >= Len(pre) /\ Slice(s, 0, Len(pre)) = pre

RECURSIVE SplitFrom(_, _, _, _)
\* s.split(): scan from 0-based position p, cur is the token being read
SplitFrom(s, p, cur, acc) ==
    IF p >= Len(s)
    THEN IF cur = <<>> THEN acc ELSE Append(acc, cur)
    ELSE IF s[p + 1] \in Spaces
         THEN SplitFrom(s, p + 1, <<>>, IF cur = <<>> THEN acc ELSE Append(acc, cur))
         ELSE SplitFrom(s, p + 1, Append(cur, s[p + 1]), acc)

Split(s) == SplitFrom(s, 0, <<>>, <<>>)

RECURSIVE LStrip(_)
LStrip(s) == IF s # <<>> /\ Head(s) \in Spaces THEN LStrip(Tail(s)) ELSE s

RECURSIVE RStrip(_)
RStrip(s) ==
    IF s # <<>> /\ s[Len(s)] \in Spaces THEN RStrip(SubSeq(s, 1, Len(s) - 1)) ELSE s

\* s.strip()
Strip(s) == RStrip(LStrip(s))

RECURSIVE Join(_, _)
\* sep.join(parts)
Join(sep, parts) ==
    IF parts = <<>> THEN <<>>
    ELSE IF Len(parts) = 1 THEN parts[1]
    ELSE parts[1] \o sep \o Join(sep, Tail(parts))

\* the number of leading characters of s, from 0-based position p, that are in cls
RECURSIVE RunLen(_, _, _)
RunLen(s, p, cls) ==
    IF p < Len(s) /\ s[p + 1] \in cls THEN 1 + RunLen(s, p + 1, cls) ELSE 0

\* re.match(r'^\d+$', s)
IsDigits(s) == Len(s) >= 1 /\ AllIn(s, Digits)

\* re.match(r'^\d+\.\d*$', s)
IsPartialDecimal(s) ==
    LET a == RunLen(s, 0, Digits)
    IN  /\ a >= 1
        /\ a < Len(s)
        /\ s[a + 1] = "."
        /\ AllIn(Slice(s, a + 1, Len(s)), Digits)

-----------------------------------------------------------------------------
(* merge_header_tokens                                                      *)

RECURSIVE MergeHeaderFrom(_, _, _)
MergeHeaderFrom(tokens, k, merged) ==
    IF k >= Len(tokens) THEN merged
    ELSE IF k + 2 < Len(tokens) /\ tokens[k + 1] = <<"P","A","C","K">>
                                /\ tokens[k + 2] = <<"L","I","S","T">> /\ tokens[k + 3] = <<"I","D">>
         THEN MergeHeaderFrom(tokens, k + 3, Append(merged, <<"P","A","C","K"," ","L","I","S","T"," ","I","D">>))
    ELSE IF k + 1 < Len(tokens) /\ tokens[k + 1] = <<"P","A","R","T">> /\ tokens[k + 2] = <<"I","D">>
         THEN MergeHeaderFrom(tokens, k + 2, Append(merged, <<"P","A","R","T"," ","I","D">>))
    ELSE IF k + 1 < Len(tokens) /\ tokens[k + 1] = <<"S","H","I","P","P","I","N","G">> /\ tokens[k + 2] = <<"M","E","T","H","O","D">>
         THEN MergeHeaderFrom(tokens, k + 2, Append(merged, <<"S","H","I","P","P","I","N","G"," ","M","E","T","H","O","D">>))
    ELSE IF k + 1 < Len(tokens) /\ tokens[k + 1] = <<"S","H","I","P">> /\ tokens[k + 2] = <<"D","A","T","E">>
         THEN MergeHeaderFrom(tokens, k + 2, Append(merged, <<"S","H","I","P"," ","D","A","T","E">>))
    ELSE MergeHeaderFrom(tokens, k + 1, Append(merged, tokens[k + 1]))

merge_header_tokens(tokens) == MergeHeaderFrom(tokens, 0, <<>>)

-----------------------------------------------------------------------------
(* merge_numeric_tokens                                                     *)

RECURSIVE MergeNumericFrom(_, _, _, _)
\* the for loop at 0-based index k with the flag skip_next
MergeNumericFrom(tokens, k, skip_next, merged) ==
    IF k >= Len(tokens) THEN merged
    ELSE IF skip_next
         THEN MergeNumericFrom(tokens, k + 1, FALSE, merged)
    ELSE IF k < Len(tokens) - 1 /\ IsPartialDecimal(tokens[k + 1])
                                /\ IsDigits(tokens[k + 2])
         THEN MergeNumericFrom(tokens, k + 1, TRUE,
                               Append(merged, tokens[k + 1] \o tokens[k + 2]))
    ELSE MergeNumericFrom(tokens, k + 1, FALSE, Append(merged, tokens[k + 1]))

RECURSIVE MergeNumericTransitiveFrom(_, _, _)
\* mutant: a merged token stays the left half for the token after it
MergeNumericTransitiveFrom(tokens, k, merged) ==
    IF k >= Len(tokens) THEN merged
    ELSE IF merged # <<>> /\ IsPartialDecimal(merged[Len(merged)])
                          /\ IsDigits(tokens[k + 1])
         THEN MergeNumericTransitiveFrom(tokens, k + 1,
                  [merged EXCEPT ![Len(merged)] = @ \o tokens[k + 1]])
    ELSE MergeNumericTransitiveFrom(tokens, k + 1, Append(merged, tokens[k + 1]))

merge_numeric_tokens_transitive(tokens) == MergeNumericTransitiveFrom(tokens, 0, <<>>)

merge_numeric_tokens(tokens) == MergeNumericFrom(tokens, 0, FALSE, <<>>)

-----------------------------------------------------------------------------
(* The fusion split of get_pack_list_id_from_tokens.                        *)

\* The lengths f of the fraction for which ^(\d+\.\d+)([A-Za-z0-9\-]+)$ can
\* match token with the integer part of length a: f digits after the dot,
\* then a non-empty rest of code characters up to the end.
FusionFracLens(token, a) ==
    { f \in 1..RunLen(token, a + 1, Digits) :
        /\ a + 1 + f < Len(token)
        /\ AllIn(Slice(token, a + 1 + f, Len(token)), CodeChars) }

Max(S) == CHOOSE x \in S : \A y \in S : y <= x

Min(S) == CHOOSE x \in S : \A y \in S : x <= y

\* mutant: the fraction is matched lazily (\d+?), so the code takes every
\* digit after the first one of the fraction
FusionMatch_lazy(token) ==
    LET a == RunLen(token, 0, Digits)
    IN  IF a >= 1 /\ a < Len(token) /\ token[a + 1] = "." /\ FusionFracLens(token, a) # {}
        THEN LET f == Min(FusionFracLens(token, a))
             IN  << Slice(token, 0, a + 1 + f), Slice(token, a + 1 + f, Len(token)) >>
        ELSE <<>>

\* re.match(r'^(\d+\.\d+)([A-Za-z0-9\-]+)$', token): <<group(1), group(2)>>,
\* or <<>> when there is no match.  \d+ is greedy: the first match found by
\* backtracking is the one with the longest fraction.
FusionMatch(token) ==
    LET a == RunLen(token, 0, Digits)
    IN  IF a >= 1 /\ a < Len(token) /\ token[a + 1] = "." /\ FusionFracLens(token, a) # {}
        THEN LET f == Max(FusionFracLens(token, a))
             IN  << Slice(token, 0, a + 1 + f), Slice(token, a + 1 + f, Len(token)) >>
        ELSE <<>>

\* mutant: the else is missing, a split token is appended whole as well
FusionSplitToken_missing_else(token) ==
    IF FusionMatch(token) # <<>> THEN Append(FusionMatch(token), token) ELSE <<token>>

\* what one raw token contributes to fixed_data_tokens
FusionSplitToken(token) ==
    IF FusionMatch(token) # <<>> THEN FusionMatch(token) ELSE <<token>>

RECURSIVE FusionSplit(_)
\* the loop that builds fixed_data_tokens from raw_data_tokens
FusionSplit(tokens) ==
    IF tokens = <<>> THEN <<>>
    ELSE FusionSplitToken(Head(tokens)) \o FusionSplit(Tail(tokens))

-----------------------------------------------------------------------------
(* get_pack_list_id_from_tokens                                             *)

\* the test that makes a line the header line
IsPackHeader(line) ==
    Contains(line, <<"P","A","C","K">>) /\ Contains(line, <<"L","I","S","T">>) /\ Contains(line, <<"I","D">>)

\* text_lines[k+1] if k+1 < len(text_lines) else "", for 0-based k
DataLineAfter(lns, k) == IF k + 1 < Len(lns) THEN lns[k + 2] ELSE <<>>

\* header_tokens.index("PACK LIST ID"), 0-based; the token is present
RECURSIVE IndexOf(_, _)
IndexOf(seq, x) == IF Head(seq) = x THEN 0 ELSE 1 + IndexOf(Tail(seq), x)

InSeq(seq, x) == \E k \in 1..Len(seq) : seq[k] = x

\* mutant: the index is taken among the raw header words, not the merged
\* logical columns (PACK LIST ID counts as three columns)
PackLookup_unmerged_index(htoks, dtoks) ==
    IF InSeq(htoks, <<"P","A","C","K"," ","L","I","S","T"," ","I","D">>)
    THEN LET idx == IndexOf(htoks, <<"P","A","C","K"," ","L","I","S","T"," ","I","D">>) + 2
         IN  IF idx < Len(dtoks) THEN dtoks[idx + 1] ELSE None
    ELSE None

\* the lookup at the end of a loop iteration: the token returned, or None
\* when the iteration returns nothing and the loop goes on
PackLookup(htoks, dtoks) ==
    IF InSeq(htoks, <<"P","A","C","K"," ","L","I","S","T"," ","I","D">>)
    THEN LET idx == IndexOf(htoks, <<"P","A","C","K"," ","L","I","S","T"," ","I","D">>)
         IN  IF idx < Len(dtoks) THEN dtoks[idx + 1] ELSE None
    ELSE None

RECURSIVE PackListFrom(_, _)
PackListFrom(lns, k) ==
    IF k >= Len(lns) THEN None
    ELSE IF IsPackHeader(lns[k + 1])
         THEN LET found == PackLookup(merge_header_tokens(Split(lns[k + 1])),
                                      merge_numeric_tokens(
                                          FusionSplit(Split(DataLineAfter(lns, k)))))
              IN  IF found # None THEN found ELSE PackListFrom(lns, k + 1)
         ELSE PackListFrom(lns, k + 1)

get_pack_list_id_from_tokens(lns) == PackListFrom(lns, 0)

-----------------------------------------------------------------------------
(* Specification of one call of get_pack_list_id_from_tokens, statement by  *)
(* statement, on a header line, a data line and an optional line before.    *)

\* characters of the drawn data lines: a digit, the dot, a code letter and
\* the blank
DataChars == {"0", ".", "A", " "}

RECURSIVE StringsOver(_, _)
\* all strings over cls of length n
StringsOver(cls, n) ==
    IF n = 0 THEN {<<>>}
    ELSE {Append(s, c) : s \in StringsOver(cls, n - 1), c \in cls}

DataLines == UNION {StringsOver(DataChars, n) : n \in 0..MaxDataLen}

\* data lines of the documented layout and of the documented corruptions
ExampleDataLines ==
    { <<"1","8","2","3","7","1"," ","I","N","T","L">>,
      <<"1","8","2","3","7","1"," ","I","N","T","L"," ","U","P","S"," ","W","O","R","L","D","W","I","D","E"," ","E","X","P","E","D","I","T","E","D"," ","C","O","L","L","E","C","T"," ","B","L","U","E"," ","0","3","/","2","8","/","2","0","2","4"," ","0","4","/","2","7","/","2","0","2","4">>,
      <<"2","5",".","0"," ","0">>, <<"2","5",".","0"," ","0"," ","0">>, <<"1","2",".","5","A","B","C","-","1"," ","X">>, <<"1",".","5","2","A"," ","7">>, <<"1",".","5"," ","2","5"," ","I","N","T","L">>,
      <<"1",".","5","-","A"," ","2">>, <<"1",".","5","$","A"," ","2">>, <<"$","1",".","5","A"," ","2",".">>, <<"3",".","2","5"," ","1","0",".","5","X"," ","4">> }

HeaderLines ==
    { <<"P","A","C","K"," ","L","I","S","T"," ","I","D"," ","S","A","L","E","S"," ","R","E","P"," ","I","D">>,
      <<"P","A","C","K"," ","L","I","S","T"," ","I","D"," ","R","E","P">>,
      <<"R","E","P"," ","P","A","C","K"," ","L","I","S","T"," ","I","D">>,
      <<"R","E","P"," ","I","D"," ","P","A","C","K"," ","L","I","S","T"," ","I","D">> }

\* lines that may precede the header line
LinesBefore ==
    { <<"P","A","C","K","L","I","S","T"," ","I","D">>,            \* has the three markers, merges to no PACK LIST ID
      <<"S","A","L","E","S"," ","R","E","P"," ","I","D">>,           \* not a header line
      <<"R","E","P"," ","P","A","C","K"," ","L","I","S","T"," ","I","D">> }      \* a header line whose data line is the next header

RepairInputs ==
    {<<h, d>> : h \in HeaderLines, d \in DataLines \cup ExampleDataLines}
    \cup {<<b, h, d>> : b \in LinesBefore, h \in {<<"P","A","C","K"," ","L","I","S","T"," ","I","D"," ","R","E","P">>, <<"R","E","P"," ","I","D"," ","P","A","C","K"," ","L","I","S","T"," ","I","D">>},
                        d \in StringsOver(DataChars, MaxDataLen - 1) \cup ExampleDataLines}
    \cup {<<h>> : h \in HeaderLines}

InitRepair ==
    /\ text_lines \in RepairInputs
    /\ pc = "scan"
    /\ i = 0
    /\ header_tokens = <<>>
    /\ raw_data_tokens = <<>>
    /\ fixed_data_tokens = <<>>
    /\ data_tokens = <<>>
    /\ result = None
    /\ IdleParts
    /\ IdleDoc
    /\ IdleUpload

\* the loop passes a line that is no header line
SkipLine ==
    /\ pc = "scan"
    /\ i < Len(text_lines)
    /\ ~IsPackHeader(text_lines[i + 1])
    /\ i' = i + 1
    /\ UNCHANGED <<pc, result, packVars, partsVars, docVars, uploadVars>>

\* a header line: the header is merged, the data line split and fusion-split
SplitTokens ==
    /\ pc = "scan"
    /\ i < Len(text_lines)
    /\ IsPackHeader(text_lines[i + 1])
    /\ header_tokens' = merge_header_tokens(Split(text_lines[i + 1]))
    /\ raw_data_tokens' = Split(DataLineAfter(text_lines, i))
    /\ fixed_data_tokens' = FusionSplit(Split(DataLineAfter(text_lines, i)))
    /\ pc' = "merge"
    /\ UNCHANGED <<text_lines, i, data_tokens, result, partsVars, docVars, uploadVars>>

MergeTokens ==
    /\ pc = "merge"
    /\ data_tokens' = merge_numeric_tokens(fixed_data_tokens)
    /\ pc' = "lookup"
    /\ UNCHANGED <<text_lines, i, header_tokens, raw_data_tokens,
                   fixed_data_tokens, result, partsVars, docVars, uploadVars>>

\* the positional lookup returns a token
LookupReturn ==
    /\ pc = "lookup"
    /\ PackLookup(header_tokens, data_tokens) # None
    /\ result' = PackLookup(header_tokens, data_tokens)
    /\ pc' = "done"
    /\ UNCHANGED <<i, packVars, partsVars, docVars, uploadVars>>

\* no PACK LIST ID column, or the data row is too short: next line
LookupContinue ==
    /\ pc = "lookup"
    /\ PackLookup(header_tokens, data_tokens) = None
    /\ i' = i + 1
    /\ pc' = "scan"
    /\ UNCHANGED <<result, packVars, partsVars, docVars, uploadVars>>

\* the loop ends without a return: the function returns None
ReturnNone ==
    /\ pc = "scan"
    /\ i >= Len(text_lines)
    /\ result' = None
    /\ pc' = "done"
    /\ UNCHANGED <<i, packVars, partsVars, docVars, uploadVars>>

NextRepair ==
    \/ SkipLine
    \/ SplitTokens
    \/ MergeTokens
    \/ LookupReturn
    \/ LookupContinue
    \/ ReturnNone

SpecRepair == InitRepair /\ [][NextRepair]_vars

-----------------------------------------------------------------------------
(* Properties of the token repair and of the positional lookup.             *)

\* a decimal number as the documentation reads it: digits, a dot, digits
IsDecimalNumber(s) ==
    \E p \in 1..(Len(s) - 2) :
        /\ AllIn(Slice(s, 0, p), Digits)
        /\ s[p + 1] = "."
        /\ AllIn(Slice(s, p + 1, Len(s)), Digits)

\* the places p at which token reads as a decimal number D = token[:p]
\* followed by a non-empty code C = token[p:]
FusionCuts(token) ==
    { p \in 1..(Len(token) - 1) :
        /\ IsDecimalNumber(Slice(token, 0, p))
        /\ AllIn(Slice(token, p, Len(token)), CodeChars) }

\* the cuts whose code C begins with a letter or a hyphen
CleanCuts(token) == { p \in FusionCuts(token) : token[p + 1] \notin Digits }

IsFusion(token) == FusionCuts(token) # {}

\* the number of fused tokens among the first n raw tokens
FusedBefore(tokens, n) == Cardinality({ m \in 1..n : IsFusion(tokens[m]) })

\* where raw token j (1-based) starts in the fusion-split sequence, 0-based
FixedOffset(tokens, j) == (j - 1) + FusedBefore(tokens, j - 1)

\* the data row has been tokenized and fusion-split
SplitDone == pc \in {"merge", "lookup"}

\* the data row has been merged as well
RepairDone == pc = "lookup"

\* the 0-based place of the first PACK LIST ID among the logical columns
ColumnIndex(htoks) ==
    CHOOSE k \in 0..(Len(htoks) - 1) :
        /\ htoks[k + 1] = <<"P","A","C","K"," ","L","I","S","T"," ","I","D">>
        /\ \A m \in 0..(k - 1) : htoks[m + 1] # <<"P","A","C","K"," ","L","I","S","T"," ","I","D">>

\* the header of the iteration has a PACK LIST ID column and the repaired
\* data row has a token for every logical column
Aligned(htoks, dtoks) ==
    /\ \E k \in 1..Len(htoks) : htoks[k] = <<"P","A","C","K"," ","L","I","S","T"," ","I","D">>
    /\ Len(dtoks) >= Len(htoks)

\* C5: positional correspondence.  Once the lookup of a header line has run
\* (the loop went on, or the function returned), if that header merged to N
\* logical columns with PACK LIST ID at index k and the repaired data row had
\* at least N tokens, the function has returned the repaired token at index
\* k; and the documented header with the data row '182371 INTL' gives
\* '182371'.
C5_PositionalCorrespondence ==
    /\ (pc \in {"scan", "done"} /\ Aligned(header_tokens, data_tokens))
          => /\ pc = "done"
             /\ result = data_tokens[ColumnIndex(header_tokens) + 1]
    /\ (pc = "done" /\ text_lines = <<<<"P","A","C","K"," ","L","I","S","T"," ","I","D"," ","S","A","L","E","S"," ","R","E","P"," ","I","D">>, <<"1","8","2","3","7","1"," ","I","N","T","L">>>>)
          => result = <<"1","8","2","3","7","1">>
    /\ (pc = "done" /\ text_lines = <<<<"R","E","P"," ","I","D"," ","P","A","C","K"," ","L","I","S","T"," ","I","D">>, <<"0"," ","0",".","0","A">>>>)
          => result = <<"A">>

\* C5 witness: a returned token from a column other than the first, out of a
\* data row that the repair changed
C5_Witness ==
    /\ pc = "done"
    /\ Aligned(header_tokens, data_tokens)
    /\ ColumnIndex(header_tokens) >= 1
    /\ data_tokens # raw_data_tokens
    /\ result = data_tokens[ColumnIndex(header_tokens) + 1]

\* C6 as claimed: the repaired sequence never has more tokens than the raw
\* sequence of the data line.
C6_RepairNeverGrows ==
    RepairDone => Len(data_tokens) <= Len(raw_data_tokens)

\* C6 as amended: merge_numeric_tokens never adds a token to the fusion-split
\* sequence, and the repaired sequence has at most one token more than the
\* raw sequence for each raw token that is a decimal-code fusion.
C6_RepairGrowsOnlyByFusions ==
    RepairDone =>
        /\ Len(data_tokens) <= Len(fixed_data_tokens)
        /\ Len(data_tokens) <= Len(raw_data_tokens)
                                 + FusedBefore(raw_data_tokens, Len(raw_data_tokens))

\* C6 witness: a data row with a fused token and a split number, repaired to
\* more tokens than it had
C6_Witness ==
    /\ RepairDone
    /\ Len(fixed_data_tokens) > Len(raw_data_tokens)
    /\ Len(data_tokens) < Len(fixed_data_tokens)
    /\ Len(data_tokens) > Len(raw_data_tokens)

\* an adjacent pair (decimal number, all-digit token) at 1-based place j
IsSplitPair(tokens, j) ==
    /\ j + 1 <= Len(tokens)
    /\ IsDecimalNumber(tokens[j])
    /\ IsDigits(tokens[j + 1])

\* C7: the split-number merge is pairwise.  Every adjacent pair (decimal
\* number, all-digit token) of the merged sequence's input is one token of
\* the output, their concatenation; when a further all-digit token follows
\* the pair it is the next token of the output, on its own; and '25.0','0'
\* becomes '25.00' while '25.0','0','0' becomes '25.00','0'.
C7_PairwiseMerge ==
    RepairDone =>
        /\ \A j \in 1..Len(fixed_data_tokens) :
              IsSplitPair(fixed_data_tokens, j) =>
                 \E m \in 1..Len(data_tokens) :
                    /\ m <= j
                    /\ data_tokens[m] = fixed_data_tokens[j] \o fixed_data_tokens[j + 1]
                    /\ Join(<<>>, SubSeq(data_tokens, 1, m - 1))
                          = Join(<<>>, SubSeq(fixed_data_tokens, 1, j - 1))
                    /\ (j + 2 <= Len(fixed_data_tokens) /\ IsDigits(fixed_data_tokens[j + 2]))
                          => /\ m + 1 <= Len(data_tokens)
                             /\ data_tokens[m + 1] = fixed_data_tokens[j + 2]
        /\ fixed_data_tokens = <<<<"2","5",".","0">>, <<"0">>>> => data_tokens = <<<<"2","5",".","0","0">>>>
        /\ fixed_data_tokens = <<<<"2","5",".","0">>, <<"0">>, <<"0">>>> => data_tokens = <<<<"2","5",".","0","0">>, <<"0">>>>

\* C7 witness: a split number followed by a third all-digit token has been
\* merged
C7_Witness ==
    /\ RepairDone
    /\ \E j \in 1..Len(fixed_data_tokens) :
          /\ IsSplitPair(fixed_data_tokens, j)
          /\ j + 2 <= Len(fixed_data_tokens)
          /\ IsDigits(fixed_data_tokens[j + 2])
    /\ Len(data_tokens) = Len(fixed_data_tokens) - 1

\* C8 as claimed: whichever way a raw token reads as a decimal number D
\* followed by a non-empty code C, the fusion split puts exactly D and C in
\* its place, and a token that reads so in no way is passed through.
C8_FusionSplitExact ==
    SplitDone =>
        \A j \in 1..Len(raw_data_tokens) :
           LET t == raw_data_tokens[j]
               o == FixedOffset(raw_data_tokens, j)
           IN  /\ \A p \in FusionCuts(t) :
                     /\ o + 2 <= Len(fixed_data_tokens)
                     /\ fixed_data_tokens[o + 1] = Slice(t, 0, p)
                     /\ fixed_data_tokens[o + 2] = Slice(t, p, Len(t))
               /\ ~IsFusion(t) =>
                     /\ o + 1 <= Len(fixed_data_tokens)
                     /\ fixed_data_tokens[o + 1] = t

\* C8 as amended: the split is exactly D and C when C begins with a letter
\* or a hyphen; a fused token whose code begins with a digit is still split
\* in two, the two making up the token; a token that is no fusion is passed
\* through; nothing else is added.
C8_FusionSplitExactForCleanCodes ==
    SplitDone =>
        /\ Len(fixed_data_tokens)
              = Len(raw_data_tokens) + FusedBefore(raw_data_tokens, Len(raw_data_tokens))
        /\ \A j \in 1..Len(raw_data_tokens) :
              LET t == raw_data_tokens[j]
                  o == FixedOffset(raw_data_tokens, j)
              IN  /\ \A p \in CleanCuts(t) :
                        /\ fixed_data_tokens[o + 1] = Slice(t, 0, p)
                        /\ fixed_data_tokens[o + 2] = Slice(t, p, Len(t))
                  /\ IsFusion(t) =>
                        /\ fixed_data_tokens[o + 1] \o fixed_data_tokens[o + 2] = t
                        /\ IsDecimalNumber(fixed_data_tokens[o + 1])
                        /\ fixed_data_tokens[o + 2] # <<>>
                  /\ ~IsFusion(t) => fixed_data_tokens[o + 1] = t

\* C8 witness: a fused token with two digits after the dot and a code that
\* begins with a letter has been split, next to a token that was passed
\* through
C8_Witness ==
    /\ SplitDone
    /\ \E j \in 1..Len(raw_data_tokens) :
          /\ \E p \in CleanCuts(raw_data_tokens[j]) : p >= 4
          /\ fixed_data_tokens[FixedOffset(raw_data_tokens, j) + 2] # raw_data_tokens[j]
    /\ \E j \in 1..Len(raw_data_tokens) : ~IsFusion(raw_data_tokens[j])

-----------------------------------------------------------------------------
(* get_all_parts                                                            *)

NL == <<"\n">>

\* the 1-based places of the newlines of txt
NewlinePlaces(txt) == { p \in 1..Len(txt) : txt[p] = "\n" }

\* the k-th smallest element of a set of numbers
KthOf(S, k) == CHOOSE x \in S : Cardinality({ y \in S : y <= x }) = k

\* text.splitlines(): a line ends at a newline; no empty line after the last
SplitLines(txt) ==
    LET nls   == NewlinePlaces(txt)
        n     == Cardinality(nls)
        first(k) == IF k = 1 THEN 1 ELSE KthOf(nls, k - 1) + 1
        last(k)  == IF k <= n THEN KthOf(nls, k) - 1 ELSE Len(txt)
        pieces == [ k \in 1..(n + 1) |-> SubSeq(txt, first(k), last(k)) ]
    IN  IF pieces[n + 1] = <<>> THEN SubSeq(pieces, 1, n) ELSE pieces

\* the test of the header loop
IsPartsHeader(line) == Contains(line, <<"P","A","R","T"," ","I","D">>) /\ Contains(line, <<"D","E","S","C","R","I","P","T","I","O","N">>)

\* the 0-based index of the first parts header line, -1 for None
FindPartsHeader(lns) ==
    IF \E k \in 1..Len(lns) : IsPartsHeader(lns[k])
    THEN (CHOOSE k \in 1..Len(lns) :
             /\ IsPartsHeader(lns[k])
             /\ \A m \in 1..(k - 1) : ~IsPartsHeader(lns[m])) - 1
    ELSE -1

IsTerminator(line) == Contains(line, <<"C","o","u","n","t","r","y"," ","M","F","G",":">>)

\* not lines[i].strip()
IsBlank(line) == Strip(line) = <<>>

\* re.match(r'^\d+$', lines[i].strip())
IsNumericLine(line) == IsDigits(Strip(line))

\* mutant: the numeric line is collected as a row of its own
AttachNumeric_own_row(rws, line) == Append(rws, Strip(line))

\* a purely numeric line: joined to the last row, dropped when there is none
AttachNumeric(rws, line) ==
    IF rws # <<>>
    THEN [rws EXCEPT ![Len(rws)] = @ \o <<" ">> \o Strip(line)]
    ELSE rws

\* rows after the loop body has run on one line that is no terminator
CollectLine(rws, line) ==
    IF IsBlank(line) THEN rws
    ELSE IF IsNumericLine(line) THEN AttachNumeric(rws, line)
    ELSE Append(rws, Strip(line))

\* the while loop ends at 0-based index k: end of page, or the terminator
CollectionEnds(lns, k) == IF k >= Len(lns) THEN TRUE ELSE IsTerminator(lns[k + 1])

RECURSIVE CollectRowsFrom(_, _, _)
\* the while loop from 0-based index k
CollectRowsFrom(lns, k, rws) ==
    IF CollectionEnds(lns, k) THEN rws
    ELSE CollectRowsFrom(lns, k + 1, CollectLine(rws, lns[k + 1]))

\* re.sub(r'^\d+\.\d+', '', part_token)
StripDecimalPrefix(token) ==
    LET a == RunLen(token, 0, Digits)
        f == RunLen(token, a + 1, Digits)
    IN  IF a >= 1 /\ a < Len(token) /\ token[a + 1] = "." /\ f >= 1
        THEN Slice(token, a + 1 + f, Len(token))
        ELSE token

RECURSIVE DescTokens(_, _)
\* desc_tokens: the tokens before the first one that starts with '$'
DescTokens(tokens, k) ==
    IF k >= Len(tokens) \/ StartsWith(tokens[k + 1], <<"$">>) THEN <<>>
    ELSE <<tokens[k + 1]>> \o DescTokens(tokens, k + 1)

\* price_tokens: every token from the first one that starts with '$' on
PriceTokens(tokens) ==
    LET nd == Len(DescTokens(tokens, 2))
    IN  Slice(tokens, 2 + nd, Len(tokens))

\* the tuple appended for one row of at least 3 tokens
PartOfRow(tokens) ==
    LET price_tokens == PriceTokens(tokens)
    IN  << StripDecimalPrefix(tokens[2]),
           Join(<<" ">>, DescTokens(tokens, 2)),
           IF Len(price_tokens) >= 1 THEN price_tokens[1] ELSE None,
           IF Len(price_tokens) >= 2 THEN price_tokens[2] ELSE None >>

RECURSIVE PartsOfRows(_)
\* the loop over rows
PartsOfRows(rws) ==
    IF rws = <<>> THEN <<>>
    ELSE LET tokens == Split(Head(rws))
         IN  (IF Len(tokens) < 3 THEN <<>> ELSE <<PartOfRow(tokens)>>)
                \o PartsOfRows(Tail(rws))

get_all_parts(txt) ==
    LET lns == SplitLines(txt)
        h   == FindPartsHeader(lns)
    IN  IF h = -1 THEN <<>>
        ELSE PartsOfRows(CollectRowsFrom(lns, h + 1, <<>>))

-----------------------------------------------------------------------------
(* Specification of one call of get_all_parts, loop iteration by loop       *)
(* iteration, on a page text made of a few lines of the parts table.        *)

\* longest page text (in lines) drawn for the parts table
MaxTextLines == 4

PartLines ==
    { <<"P","A","R","T"," ","I","D"," ","D","E","S","C","R","I","P","T","I","O","N">>,
      <<"C","o","u","n","t","r","y"," ","M","F","G",":"," ","U","S">>,
      <<" ">>,
      <<"0","0","0","0","3">>,
      <<"0","0","1","2","3"," ","S","H","I","P","9","9","9","8","A","B","C","-","1"," ","W","i","d","g","e","t"," ","$","1",".","0","0"," ","$","5",".","0","0">>,
      <<"2"," ","2",".","0","0","A","B","C","-","1"," ","H","e","x"," ","N","u","t"," ","$","1",".","0","0">>,
      <<"1"," ","1",".","5","X","-","2"," ","B","o","l","t"," ","$","2",".","5","0"," ","E","A"," ","$","9">>,
      <<"P","a","g","e"," ","2">> }

\* all sequences of at most MaxTextLines lines of the parts table
PartLineSeqs == UNION { [1..n -> PartLines] : n \in 0..MaxTextLines }

InitParts ==
    /\ \E ls \in PartLineSeqs : text = Join(NL, ls)
    /\ lines = SplitLines(text)
    /\ header_index = -1
    /\ rows = <<>>
    /\ i = 0
    /\ pc = "header"
    /\ result = None
    /\ IdlePack
    /\ IdleDoc
    /\ IdleUpload

\* the header loop found the header line
HeaderFound ==
    /\ pc = "header"
    /\ FindPartsHeader(lines) # -1
    /\ header_index' = FindPartsHeader(lines)
    /\ i' = FindPartsHeader(lines) + 1
    /\ pc' = "collect"
    /\ UNCHANGED <<text, lines, rows, result, packVars, docVars, uploadVars>>

\* no header line: return []
HeaderMissing ==
    /\ pc = "header"
    /\ FindPartsHeader(lines) = -1
    /\ result' = <<>>
    /\ pc' = "done"
    /\ UNCHANGED <<i, partsVars, packVars, docVars, uploadVars>>

\* a blank line is skipped
CollectBlank ==
    /\ pc = "collect"
    /\ i < Len(lines)
    /\ ~IsTerminator(lines[i + 1])
    /\ IsBlank(lines[i + 1])
    /\ rows' = CollectLine(rows, lines[i + 1])
    /\ i' = i + 1
    /\ UNCHANGED <<pc, text, lines, header_index, result, packVars, docVars, uploadVars>>

\* a purely numeric line is joined to the previous row
CollectNumeric ==
    /\ pc = "collect"
    /\ i < Len(lines)
    /\ ~IsTerminator(lines[i + 1])
    /\ ~IsBlank(lines[i + 1])
    /\ IsNumericLine(lines[i + 1])
    /\ rows' = CollectLine(rows, lines[i + 1])
    /\ i' = i + 1
    /\ UNCHANGED <<pc, text, lines, header_index, result, packVars, docVars, uploadVars>>

\* any other line is a new row
CollectRow ==
    /\ pc = "collect"
    /\ i < Len(lines)
    /\ ~IsTerminator(lines[i + 1])
    /\ ~IsBlank(lines[i + 1])
    /\ ~IsNumericLine(lines[i + 1])
    /\ rows' = CollectLine(rows, lines[i + 1])
    /\ i' = i + 1
    /\ UNCHANGED <<pc, text, lines, header_index, result, packVars, docVars, uploadVars>>

\* the terminator line or the end of the page ends the collection; the rows
\* are split into parts and returned
SplitRows ==
    /\ pc = "collect"
    /\ CollectionEnds(lines, i)
    /\ result' = PartsOfRows(rows)
    /\ pc' = "done"
    /\ UNCHANGED <<i, partsVars, packVars, docVars, uploadVars>>

NextParts ==
    \/ HeaderFound
    \/ HeaderMissing
    \/ CollectBlank
    \/ CollectNumeric
    \/ CollectRow
    \/ SplitRows

SpecParts == InitParts /\ [][NextParts]_vars


-----------------------------------------------------------------------------
(* Properties of the parts table extractor.                                 *)

\* the 1-based places of the lines the collection loop has passed
Passed == (header_index + 2)..i

\* the passed lines that open a row: neither blank nor purely numeric
RowStarts == { n \in Passed : ~IsBlank(lines[n]) /\ ~IsDigits(Strip(lines[n])) }

\* the r-th smallest element of a set of numbers
RECURSIVE Nth(_, _)
Nth(S, r) ==
    LET least == CHOOSE x \in S : \A y \in S : x <= y
    IN  IF r = 1 THEN least ELSE Nth(S \ {least}, r - 1)

\* the last passed line that belongs to the row opened at line n
RowEnd(n) ==
    IF \E m \in RowStarts : m > n
    THEN (CHOOSE m \in RowStarts : m > n /\ \A q \in RowStarts : q > n => m <= q) - 1
    ELSE i

RECURSIVE StrippedNonBlank(_, _)
\* the stripped non-blank lines among lines[a..b]
StrippedNonBlank(a, b) ==
    IF a > b THEN <<>>
    ELSE (IF IsBlank(lines[a]) THEN <<>> ELSE <<Strip(lines[a])>>)
            \o StrippedNonBlank(a + 1, b)

\* the longest prefix of token that is a decimal number (0 when none is)
DecimalPrefixLen(token) ==
    LET ps == { p \in 1..Len(token) : IsDecimalNumber(Slice(token, 0, p)) }
    IN  IF ps = {} THEN 0 ELSE CHOOSE p \in ps : \A q \in ps : q <= p

\* the rows that are split into parts: those of at least 3 tokens
DataRows == SelectSeq(rows, LAMBDA r : Len(Split(r)) >= 3)

\* the row-continuation rule of get_all_parts: every passed line that is
\* neither blank nor purely numeric opens a row, and the row is that line
\* space-joined with the purely numeric lines that follow it; each row of at
\* least 3 tokens gives one part whose identifier is its second token
\* without the leading decimal number
RowContinuationRule ==
    /\ pc \in {"collect", "done"} /\ header_index # -1 =>
          /\ Len(rows) = Cardinality(RowStarts)
          /\ \A r \in 1..Len(rows) :
                rows[r] = Join(<<" ">>, StrippedNonBlank(Nth(RowStarts, r),
                                                         RowEnd(Nth(RowStarts, r))))
    /\ pc = "done" /\ header_index # -1 =>
          /\ Len(result) = Len(DataRows)
          /\ \A r \in 1..Len(result) :
                LET token == Split(DataRows[r])[2]
                IN  result[r][1] = Slice(token, DecimalPrefixLen(token), Len(token))

\* the documented page: header, one row, its quantity pushed to the next line
ContinuationExample ==
    << <<"P","A","R","T"," ","I","D"," ","D","E","S","C","R","I","P","T","I","O","N">>, <<"0","0","1","2","3"," ","S","H","I","P","9","9","9","8","A","B","C","-","1"," ","W","i","d","g","e","t"," ","$","1",".","0","0"," ","$","5",".","0","0">>, <<"0","0","0","0","3">> >>

\* C4 as claimed: a purely numeric line after a collected row is joined to
\* that row, the identifier is the second token without its leading quantity,
\* and the documented lines give exactly one part, identifier 'ABC-1',
\* description 'Widget', unit price '$1.00', extended price '$5.00'.
C4_RowContinuation ==
    /\ RowContinuationRule
    /\ (pc = "done" /\ lines = ContinuationExample)
          => result = << <<<<"A","B","C","-","1">>, <<"W","i","d","g","e","t">>, <<"$","1",".","0","0">>, <<"$","5",".","0","0">>>> >>

\* C4 as amended: the same, but the identifier of the documented lines is
\* 'SHIP9998ABC-1': only a leading decimal number (digits, a dot, digits) is
\* stripped from the second token, and 'SHIP9998ABC-1' has none; '2.00ABC-1'
\* gives 'ABC-1'.
C4_RowContinuationDecimalPrefix ==
    /\ RowContinuationRule
    /\ (pc = "done" /\ lines = ContinuationExample)
          => result = << <<<<"S","H","I","P","9","9","9","8","A","B","C","-","1">>, <<"W","i","d","g","e","t">>, <<"$","1",".","0","0">>, <<"$","5",".","0","0">>>> >>
    /\ (pc = "done" /\ lines = << <<"P","A","R","T"," ","I","D"," ","D","E","S","C","R","I","P","T","I","O","N">>, <<"2"," ","2",".","0","0","A","B","C","-","1"," ","H","e","x"," ","N","u","t"," ","$","1",".","0","0">>, <<"0","0","0","0","3">> >>)
          => /\ Len(result) = 1
             /\ result[1][1] = <<"A","B","C","-","1">>
             /\ result[1][2] = <<"H","e","x"," ","N","u","t">>

\* C4 witness: the documented lines have been extracted to one part, out of
\* a row that took the numeric line in
C4_Witness ==
    /\ pc = "done"
    /\ lines = ContinuationExample
    /\ rows = << <<"0","0","1","2","3"," ","S","H","I","P","9","9","9","8","A","B","C","-","1"," ","W","i","d","g","e","t"," ","$","1",".","0","0"," ","$","5",".","0","0"," ","0","0","0","0","3">> >>
    /\ Len(result) = 1

\* the tokens of a row that start with '$', in order
RECURSIVE CurrencyTokens(_)
CurrencyTokens(tokens) ==
    IF tokens = <<>> THEN <<>>
    ELSE (IF Head(tokens)[1] = "$" THEN <<Head(tokens)>> ELSE <<>>)
            \o CurrencyTokens(Tail(tokens))

\* C10: for every row that gives a part, the unit price and the extended
\* price are the first and the second token starting with '$' among the
\* tokens after the identifier, None when there is no such token; a token
\* that does not start with '$' is never a price.
C10_PricesAreCurrencyTokens ==
    (pc = "done" /\ header_index # -1) =>
        \A r \in 1..Len(result) :
           LET cur == CurrencyTokens(Slice(Split(DataRows[r]), 2, Len(Split(DataRows[r]))))
           IN  /\ result[r][3] = IF Len(cur) >= 1 THEN cur[1] ELSE None
               /\ result[r][4] = IF Len(cur) >= 2 THEN cur[2] ELSE None

-----------------------------------------------------------------------------
(* The scalar extractors of extract_invoice_data.                           *)

\* the number of characters of s from 0-based position p up to the next
\* whitespace character: the greedy \S+
RECURSIVE NonSpaceRun(_, _)
NonSpaceRun(s, p) ==
    IF p < Len(s) /\ s[p + 1] \notin Spaces THEN 1 + NonSpaceRun(s, p + 1) ELSE 0

\* the 0-based places at which label occurs in txt
Occurrences(txt, label) ==
    { p \in 0..(Len(txt) - Len(label)) :
        txt[p + 1] = label[1] /\ Slice(txt, p, p + Len(label)) = label }

\* where the capture group starts for the label at p: after the greedy \s*
AfterLabel(txt, label, p) == p + Len(label) + RunLen(txt, p + Len(label), Spaces)

\* re.search(r'Invoice ID:\s*(\S+)', text): group(1), or None
InvoiceIdSearch(txt) ==
    LET label == <<"I","n","v","o","i","c","e"," ","I","D",":">>
        hits  == { p \in Occurrences(txt, label) :
                     NonSpaceRun(txt, AfterLabel(txt, label, p)) >= 1 }
    IN  IF hits = {} THEN None
        ELSE LET q == AfterLabel(txt, label, Min(hits))
             IN  Slice(txt, q, q + NonSpaceRun(txt, q))

\* re.search(r'Harmonization Code:\s*([\d\.]+)', text): group(1), or None
HarmonizationSearch(txt) ==
    LET label == <<"H","a","r","m","o","n","i","z","a","t","i","o","n"," ","C","o","d","e",":">>
        hits  == { p \in Occurrences(txt, label) :
                     RunLen(txt, AfterLabel(txt, label, p), Digits \cup {"."}) >= 1 }
    IN  IF hits = {} THEN None
        ELSE LET q == AfterLabel(txt, label, Min(hits))
             IN  Slice(txt, q, q + RunLen(txt, q, Digits \cup {"."}))

\* \b at 0-based position p of txt
WordBoundary(txt, p) ==
    LET before == IF p >= 1 THEN txt[p] \in WordChars ELSE FALSE
        after  == IF p < Len(txt) THEN txt[p + 1] \in WordChars ELSE FALSE
    IN  before # after

\* re.search(r'\b(450\d+)\b', text): group(1), or None
CustomerPOSearch(txt) ==
    LET hits == { p \in Occurrences(txt, <<"4","5","0">>) :
                    /\ WordBoundary(txt, p)
                    /\ RunLen(txt, p + 3, Digits) >= 1
                    /\ WordBoundary(txt, p + 3 + RunLen(txt, p + 3, Digits)) }
    IN  IF hits = {} THEN None
        ELSE Slice(txt, Min(hits), Min(hits) + 3 + RunLen(txt, Min(hits) + 3, Digits))

-----------------------------------------------------------------------------
(* get_shipping_info                                                        *)

IsShippingHeader(line) ==
    Contains(line, <<"S","H","I","P","P","I","N","G"," ","M","E","T","H","O","D">>) /\ Contains(line, <<"S","H","I","P"," ","D","A","T","E">>)

\* <<shipping_method, ship_date>>
get_shipping_info(lns) ==
    IF \E k \in 1..Len(lns) : IsShippingHeader(lns[k])
    THEN LET k == CHOOSE k \in 1..Len(lns) :
                     /\ IsShippingHeader(lns[k])
                     /\ \A m \in 1..(k - 1) : ~IsShippingHeader(lns[m])
         IN  IF k < Len(lns)
             THEN LET toks == Split(lns[k + 1])
                  IN  IF Len(toks) >= 5
                      THEN << Join(<<" ">>, Slice(toks, 2, Len(toks) - 2)),
                              toks[Len(toks) - 1] >>
                      ELSE <<None, None>>
             ELSE <<None, None>>
    ELSE <<None, None>>

-----------------------------------------------------------------------------
(* get_ship_to_address                                                      *)

IsAddressHeader(line) ==
    Contains(line, <<"B","i","l","l"," ","T","o"," ","A","d","d","r","e","s","s">>) /\ Contains(line, <<"S","h","i","p"," ","T","o"," ","A","d","d","r","e","s","s">>)

RECURSIVE AddrLinesFrom(_, _)
\* addr_lines: the loop over lines[start_index+1:], at 0-based index k
AddrLinesFrom(lns, k) ==
    IF k >= Len(lns) THEN <<>>
    ELSE IF Strip(lns[k + 1]) = <<>> \/ Strip(lns[k + 1]) = <<"N","L">> THEN <<>>
    ELSE LET toks == Split(lns[k + 1])
             n    == Len(toks)
         IN  << IF n % 2 = 0
                THEN Join(<<" ">>, Slice(toks, n \div 2, n))
                ELSE lns[k + 1] >>
             \o AddrLinesFrom(lns, k + 1)

get_ship_to_address(txt) ==
    LET lns == SplitLines(txt)
    IN  IF \E k \in 1..Len(lns) : IsAddressHeader(lns[k])
        THEN LET start == CHOOSE k \in 1..Len(lns) :
                             /\ IsAddressHeader(lns[k])
                             /\ \A m \in 1..(k - 1) : ~IsAddressHeader(lns[m])
             IN  Join(NL, AddrLinesFrom(lns, start))
        ELSE None

-----------------------------------------------------------------------------
(* extract_invoice_data: what the loop body does to the record on one page. *)

ScalarFields ==
    { "Invoice ID", "PACK LIST ID", "Harmonization Code", "Customer PO",
      "Shipping Method", "Ship Date", "Ship To Address" }

\* invoice_data as the function starts with it
EmptyRecord == [ f \in ScalarFields \cup {"PARTS"} |-> IF f = "PARTS" THEN <<>> ELSE None ]

\* what the extractors return on one page text
Extractors(txt) ==
    [ invoice_id    |-> InvoiceIdSearch(txt),
      harmonization |-> HarmonizationSearch(txt),
      customer_po   |-> CustomerPOSearch(txt),
      pack_list_id  |-> get_pack_list_id_from_tokens(SplitLines(txt)),
      parts         |-> get_all_parts(txt),
      shipping      |-> get_shipping_info(SplitLines(txt)),
      ship_to       |-> get_ship_to_address(txt) ]

\* The Assign operators merge into the record d what the extractors
\* returned on the page, e.

AssignInvoiceId(d, e) ==
    IF d["Invoice ID"] = None /\ e.invoice_id # None
    THEN [d EXCEPT !["Invoice ID"] = e.invoice_id]
    ELSE d

AssignHarmonization(d, e) ==
    IF d["Harmonization Code"] = None /\ e.harmonization # None
    THEN [d EXCEPT !["Harmonization Code"] = e.harmonization]
    ELSE d

AssignCustomerPO(d, e) ==
    IF d["Customer PO"] = None /\ e.customer_po # None
    THEN [d EXCEPT !["Customer PO"] = e.customer_po]
    ELSE d

\* mutant: the test that the field is still None is missing
AssignPackListId_overwrite(d, e) ==
    IF Truthy(e.pack_list_id)
    THEN [d EXCEPT !["PACK LIST ID"] = e.pack_list_id]
    ELSE d

AssignPackListId(d, e) ==
    IF Truthy(e.pack_list_id) /\ d["PACK LIST ID"] = None
    THEN [d EXCEPT !["PACK LIST ID"] = e.pack_list_id]
    ELSE d

ExtendParts(d, e) ==
    IF e.parts # <<>>
    THEN [d EXCEPT !["PARTS"] = @ \o e.parts]
    ELSE d

AssignShipping(d, e) ==
    LET d1 == IF Truthy(e.shipping[1]) /\ d["Shipping Method"] = None
              THEN [d EXCEPT !["Shipping Method"] = e.shipping[1]]
              ELSE d
    IN  IF Truthy(e.shipping[2]) /\ d1["Ship Date"] = None
        THEN [d1 EXCEPT !["Ship Date"] = e.shipping[2]]
        ELSE d1

\* mutant: the address is stored whenever the header was found, empty or not
AssignShipTo_any_result(d, e) ==
    IF d["Ship To Address"] = None /\ e.ship_to # None
    THEN [d EXCEPT !["Ship To Address"] = e.ship_to]
    ELSE d

AssignShipTo(d, e) ==
    IF d["Ship To Address"] = None /\ Truthy(e.ship_to)
    THEN [d EXCEPT !["Ship To Address"] = e.ship_to]
    ELSE d

\* the loop body on a page with text, up to the test of the break
AssemblePage(d, e) ==
    AssignShipTo(
      AssignShipping(
        ExtendParts(
          AssignPackListId(
            AssignCustomerPO(
              AssignHarmonization(
                AssignInvoiceId(d, e), e), e), e), e), e), e)

\* the condition of the break
AllFound(d) ==
    /\ \A f \in ScalarFields : Truthy(d[f])
    /\ d["PARTS"] # <<>>


-----------------------------------------------------------------------------
(* The page texts the page text provider may hand over.                     *)

ShippingHeaderLine ==
    <<"P","A","C","K"," ","L","I","S","T"," ","I","D"," ","S","A","L","E","S"," ","R","E","P"," ","I","D"," ","S","H","I","P","P","I","N","G"," ","M","E","T","H","O","D"," ","S","H","I","P"," ","D","A","T","E"," ","I","N","V","O","I","C","E"," ","D","U","E"," ","D","A","T","E">>

PageTexts ==
    << <<>>,                                                     \* 1: no text
       <<"I","n","v","o","i","c","e"," ","I","D",":"," ","I","N","V","-","1">>,                                     \* 2
       Join(NL, << <<"I","n","v","o","i","c","e"," ","I","D",":"," ","I","N","V","-","2">>,
                   <<"H","a","r","m","o","n","i","z","a","t","i","o","n"," ","C","o","d","e",":"," ","9","0","3","1",".","8","0">>,
                   <<"C","u","s","t","o","m","e","r"," ","P","O",":"," ","4","5","0","0","1","2","3">> >>),                  \* 3
       Join(NL, << <<"H","a","r","m","o","n","i","z","a","t","i","o","n"," ","C","o","d","e",":"," ","N","/","A">>, <<"P","O"," ","X","4","5","0","1"," ","4","5","0","2","_","7">> >>),   \* 4: no match
       Join(NL, << ShippingHeaderLine,
                   <<"1","8","2","3","7","1"," ","I","N","T","L"," ","U","P","S"," ","W","O","R","L","D","W","I","D","E"," ","E","X","P","E","D","I","T","E","D"," ","0","3","/","2","8","/","2","0","2","4"," ","0","4","/","2","7","/","2","0","2","4">> >>),  \* 5
       Join(NL, << ShippingHeaderLine,
                   <<"1","8","2","9","9","9"," ","D","O","M"," ","F","E","D","E","X"," ","0","4","/","0","1","/","2","0","2","4"," ","0","5","/","0","1","/","2","0","2","4">> >>),                     \* 6
       Join(NL, << ShippingHeaderLine, <<"1","8","2","3","7","1"," ","I","N","T","L">> >>),       \* 7: short data row
       Join(NL, << <<"B","i","l","l"," ","T","o"," ","A","d","d","r","e","s","s"," ","S","h","i","p"," ","T","o"," ","A","d","d","r","e","s","s">>,
                   <<"A","C","M","E"," ","B","V"," ","N","O","V","A"," ","B","V">>, <<"D","o","c","k"," ","1"," ","D","o","c","k"," ","2">>, <<"N","L">> >>),      \* 8
       Join(NL, << <<"B","i","l","l"," ","T","o"," ","A","d","d","r","e","s","s"," ","S","h","i","p"," ","T","o"," ","A","d","d","r","e","s","s">>, <<"N","L">> >>),        \* 9: empty block
       Join(NL, << <<"B","i","l","l"," ","T","o"," ","A","d","d","r","e","s","s"," ","S","h","i","p"," ","T","o"," ","A","d","d","r","e","s","s">>,
                   <<"H","a","r","b","o","u","r"," ","R","d"," ","7">>, <<>>, <<"I","n","v","o","i","c","e"," ","I","D",":"," ","I","N","V","-","3">> >>),       \* 10
       Join(NL, << <<"P","A","R","T"," ","I","D"," ","D","E","S","C","R","I","P","T","I","O","N">>,
                   <<"0","0","1","2","3"," ","S","H","I","P","9","9","9","8","A","B","C","-","1"," ","W","i","d","g","e","t"," ","$","1",".","0","0"," ","$","5",".","0","0">>, <<"0","0","0","0","3">>,
                   <<"C","o","u","n","t","r","y"," ","M","F","G",":"," ","U","S">> >>),                       \* 11
       Join(NL, << <<"P","A","R","T"," ","I","D"," ","D","E","S","C","R","I","P","T","I","O","N">>, <<"2"," ","2",".","0","0","X","-","2"," ","H","e","x"," ","N","u","t"," ","$","1",".","0","0">> >>),   \* 12
       Join(NL, << <<"I","n","v","o","i","c","e"," ","I","D",":"," ","I","N","V","-","1">>,
                   <<"H","a","r","m","o","n","i","z","a","t","i","o","n"," ","C","o","d","e",":"," ","9","0","3","1",".","8","0"," "," "," ","C","u","s","t","o","m","e","r"," ","P","O",":"," ","4","5","0","0","1","2","3">>,
                   ShippingHeaderLine,
                   <<"1","8","2","3","7","1"," ","I","N","T","L"," ","U","P","S"," ","W","O","R","L","D","W","I","D","E"," ","E","X","P","E","D","I","T","E","D"," ","0","3","/","2","8","/","2","0","2","4"," ","0","4","/","2","7","/","2","0","2","4">>,
                   <<"B","i","l","l"," ","T","o"," ","A","d","d","r","e","s","s"," ","S","h","i","p"," ","T","o"," ","A","d","d","r","e","s","s">>,
                   <<"A","C","M","E"," ","B","V"," ","N","O","V","A"," ","B","V">>, <<"N","L">>,
                   <<"P","A","R","T"," ","I","D"," ","D","E","S","C","R","I","P","T","I","O","N">>,
                   <<"1"," ","1",".","0","0","A","B","C","-","1"," ","W","i","d","g","e","t"," ","$","1",".","0","0"," ","$","5",".","0","0">>,
                   <<"C","o","u","n","t","r","y"," ","M","F","G",":"," ","U","S">> >>)                        \* 13: every field
    >>

PageIds == 1..Len(PageTexts)

\* what the extractors return on each page text
PageFound == [ p \in PageIds |-> Extractors(PageTexts[p]) ]

RECURSIVE ExtractFrom(_, _, _)
\* the page loop from the k-th page (0-based) of a document, a sequence of
\* pages
ExtractFrom(d, doc, k) ==
    IF k >= Len(doc) THEN d
    ELSE IF PageTexts[doc[k + 1]] = <<>> THEN ExtractFrom(d, doc, k + 1)
    ELSE IF AllFound(AssemblePage(d, PageFound[doc[k + 1]]))
         THEN AssemblePage(d, PageFound[doc[k + 1]])
    ELSE ExtractFrom(AssemblePage(d, PageFound[doc[k + 1]]), doc, k + 1)

extract_invoice_data(doc) == ExtractFrom(EmptyRecord, doc, 0)

-----------------------------------------------------------------------------
(* Specification of one call of extract_invoice_data, page by page.  Beside *)
(* invoice_data the model keeps full_data, the record of the same loop      *)
(* without its break, which goes on over the pages the break leaves unread. *)

\* most pages of a document
MaxPages == 3

Init ==
    /\ pc = "loop"
    /\ pages = <<>>
    /\ invoice_data = EmptyRecord
    /\ full_data = EmptyRecord
    /\ i = 0
    /\ result = None
    /\ IdlePack
    /\ IdleParts
    /\ IdleUpload

\* a page without text: continue
SkipPage(p) ==
    /\ pc = "loop"
    /\ Len(pages) < MaxPages
    /\ PageTexts[p] = <<>>
    /\ pages' = Append(pages, p)
    /\ UNCHANGED <<pc, i, result, invoice_data, full_data, packVars, partsVars, uploadVars>>

\* a page with text after which some field is still missing
ProcessPage(p) ==
    /\ pc = "loop"
    /\ Len(pages) < MaxPages
    /\ PageTexts[p] # <<>>
    /\ ~AllFound(AssemblePage(invoice_data, PageFound[p]))
    /\ pages' = Append(pages, p)
    /\ invoice_data' = AssemblePage(invoice_data, PageFound[p])
    /\ full_data' = AssemblePage(full_data, PageFound[p])
    /\ UNCHANGED <<pc, i, result, packVars, partsVars, uploadVars>>

\* a page with text after which every field is found: break
ProcessPageAndBreak(p) ==
    /\ pc = "loop"
    /\ Len(pages) < MaxPages
    /\ PageTexts[p] # <<>>
    /\ AllFound(AssemblePage(invoice_data, PageFound[p]))
    /\ pages' = Append(pages, p)
    /\ invoice_data' = AssemblePage(invoice_data, PageFound[p])
    /\ full_data' = AssemblePage(full_data, PageFound[p])
    /\ pc' = "break"
    /\ UNCHANGED <<i, result, packVars, partsVars, uploadVars>>

\* a page after the break: the loop with the break never reads it, the loop
\* without the break does
UnreadPage(p) ==
    /\ pc = "break"
    /\ Len(pages) < MaxPages
    /\ pages' = Append(pages, p)
    /\ full_data' = IF PageTexts[p] = <<>> THEN full_data
                    ELSE AssemblePage(full_data, PageFound[p])
    /\ UNCHANGED <<pc, i, result, invoice_data, packVars, partsVars, uploadVars>>

\* the document has no more pages: return invoice_data
Return ==
    /\ pc \in {"loop", "break"}
    /\ pc' = "returned"
    /\ result' = invoice_data
    /\ UNCHANGED <<i, docVars, packVars, partsVars, uploadVars>>

Next ==
    \/ \E p \in PageIds : SkipPage(p)
    \/ \E p \in PageIds : ProcessPage(p)
    \/ \E p \in PageIds : ProcessPageAndBreak(p)
    \/ \E p \in PageIds : UnreadPage(p)
    \/ Return

Spec == Init /\ [][Next]_vars


-----------------------------------------------------------------------------
(* Properties of the record assembler.                                      *)

\* C1: early-termination equivalence.  When extract_invoice_data has
\* returned, its record is the record the same loop builds without the break
\* over every page of the document: the same seven scalar values and the
\* same ordered PARTS list.
C1_EarlyExitEquivalence ==
    pc = "returned" => invoice_data = full_data

\* C2: first match wins.  No step of the page loop changes a scalar field
\* that already holds a value: once a field is not None, every later page
\* leaves it as it is.
C2_FirstMatchWins ==
    [][ \A f \in ScalarFields :
           invoice_data[f] # None => invoice_data'[f] = invoice_data[f] ]_vars

\* C2 witness: the loop has processed a later page on which an extractor
\* found another value for a field that was already set, and the field still
\* holds the earlier value
C2_Witness ==
    /\ pc \in {"loop", "break"}
    /\ Len(pages) >= 2
    /\ LET once == AssemblePage(EmptyRecord, PageFound[pages[Len(pages)]])
       IN  /\ once["PACK LIST ID"] # None
           /\ once["PACK LIST ID"] # invoice_data["PACK LIST ID"]
           /\ once["Invoice ID"] # None
           /\ once["Invoice ID"] # invoice_data["Invoice ID"]

\* a Python str that is not empty
IsNonEmptyStr(v) ==
    /\ v # None
    /\ Len(v) >= 1
    /\ \A k \in 1..Len(v) : v[k] \in Letters \cup Digits \cup Spaces
                                      \cup {".", "-", "/", ":", "$", "_"}

\* C3: in every state of the record, of the loop with the break and of the
\* loop without it, each of the seven scalar fields is None or a non-empty
\* string, never the empty string.
C3_AbsentIsNeverEmptyString ==
    pc \in {"loop", "break", "returned"} =>
        \A f \in ScalarFields :
            /\ invoice_data[f] = None \/ IsNonEmptyStr(invoice_data[f])
            /\ full_data[f] = None \/ IsNonEmptyStr(full_data[f])

\* C3 witness: a page on which get_ship_to_address found its header and an
\* empty block has been processed, and the address is still None
C3_Witness ==
    /\ pc = "loop"
    /\ Len(pages) >= 1
    /\ PageFound[pages[Len(pages)]].ship_to = <<>>
    /\ invoice_data["Ship To Address"] = None
    /\ invoice_data["Invoice ID"] # None

-----------------------------------------------------------------------------
(* Specification of the upload loop: every uploaded file is extracted and   *)
(* flattened to one row per part.                                           *)

\* most files uploaded at once
MaxFiles == 2

\* the pages of the uploaded documents
UploadPageIds == {1, 2, 12, 13}

RECURSIVE PageSeqs(_)
\* all sequences of n pages
PageSeqs(n) ==
    IF n = 0 THEN {<<>>}
    ELSE {Append(s, p) : s \in PageSeqs(n - 1), p \in UploadPageIds}

\* an uploaded file: whether pdfplumber can open it, and its pages
UploadDocs ==
    { [readable |-> TRUE, doc |-> d] : d \in PageSeqs(1) \cup PageSeqs(2) }
    \cup { [readable |-> FALSE, doc |-> <<>>] }

RECURSIVE FileSeqs(_)
FileSeqs(n) ==
    IF n = 0 THEN {<<>>}
    ELSE {Append(s, f) : s \in FileSeqs(n - 1), f \in UploadDocs}

\* the rows the inner loop appends for the file number n and its record
RECURSIVE RowsOf(_, _, _)
RowsOf(n, inv_data, k) ==
    IF k >= Len(inv_data["PARTS"]) THEN <<>>
    ELSE << [ Filename |-> n,
              InvoiceID |-> inv_data["Invoice ID"],
              PackListID |-> inv_data["PACK LIST ID"],
              HarmonizationCode |-> inv_data["Harmonization Code"],
              CustomerPO |-> inv_data["Customer PO"],
              PartID |-> inv_data["PARTS"][k + 1][1],
              Description |-> inv_data["PARTS"][k + 1][2],
              UnitPrice |-> inv_data["PARTS"][k + 1][3],
              ExtendedPrice |-> inv_data["PARTS"][k + 1][4],
              ShippingMethod |-> inv_data["Shipping Method"],
              ShipDate |-> inv_data["Ship Date"],
              ShipToAddress |-> inv_data["Ship To Address"] ] >>
         \o RowsOf(n, inv_data, k + 1)

InitUpload ==
    /\ uploaded_files \in UNION {FileSeqs(n) : n \in 1..MaxFiles}
    /\ all_rows = <<>>
    /\ errors = <<>>
    /\ shown = "nothing"
    /\ i = 0
    /\ pc = "files"
    /\ result = None
    /\ IdlePack
    /\ IdleParts
    /\ IdleDoc

\* one turn of the loop over the files: the file is extracted, its rows are
\* appended
ExtractFile ==
    /\ pc = "files"
    /\ i < Len(uploaded_files)
    /\ uploaded_files[i + 1].readable
    /\ result' = extract_invoice_data(uploaded_files[i + 1].doc)
    /\ all_rows' = all_rows \o RowsOf(i + 1, extract_invoice_data(uploaded_files[i + 1].doc), 0)
    /\ i' = i + 1
    /\ UNCHANGED <<pc, uploaded_files, errors, shown, packVars, partsVars, docVars>>

\* one turn of the loop over the files: the extraction raises, st.error
\* names the file
ExtractRaises ==
    /\ pc = "files"
    /\ i < Len(uploaded_files)
    /\ ~uploaded_files[i + 1].readable
    /\ errors' = Append(errors, i + 1)
    /\ i' = i + 1
    /\ UNCHANGED <<pc, result, uploaded_files, all_rows, shown, packVars, partsVars, docVars>>

\* after the loop: the combined table
ShowTable ==
    /\ pc = "files"
    /\ i >= Len(uploaded_files)
    /\ all_rows # <<>>
    /\ shown' = "dataframe"
    /\ pc' = "done"
    /\ UNCHANGED <<i, result, uploaded_files, all_rows, errors, packVars, partsVars, docVars>>

\* after the loop: no rows, "No data extracted from the uploaded PDFs."
ShowNoData ==
    /\ pc = "files"
    /\ i >= Len(uploaded_files)
    /\ all_rows = <<>>
    /\ shown' = "no data"
    /\ pc' = "done"
    /\ UNCHANGED <<i, result, uploaded_files, all_rows, errors, packVars, partsVars, docVars>>

NextUpload ==
    \/ ExtractFile
    \/ ExtractRaises
    \/ ShowTable
    \/ ShowNoData

SpecUpload == InitUpload /\ [][NextUpload]_vars

\* C9: partial records are surfaced.  Every file whose extraction completed
\* without raising has at least one row of its own in all_rows, whether or
\* not its record has parts.
C9_PartialRecordsSurfaced ==
    \A n \in 1..i :
        uploaded_files[n].readable =>
            \E k \in 1..Len(all_rows) : all_rows[k].Filename = n


=============================================================================
